---- MODULE Spec2Model ----
(***************************************************************************)
(* The book metadata resolution pipeline of app.py: the genre classifier   *)
(* (_normalize_genre), the author normalizer (normalize_author_name), the  *)
(* provider clients (_fetch_from_openlibrary, _fetch_from_googlebooks,     *)
(* fetch_cover_by_title_author) and the orchestrator (fetch_book_info).    *)
(*                                                                         *)
(* A Python string is a sequence of one-character strings; a Python value  *)
(* is a record tagged by its type, so that a payload of the wrong type is  *)
(* a value the model can hold and the code's type errors can be raised.    *)
(***************************************************************************)
EXTENDS Integers, Sequences, FiniteSets, TLC

VARIABLES
    store,      \* the books table: ISBN -> a row, or NoRow
    pc,         \* where the running request stands
    isbn,       \* the ISBN fetch_book_info was called with
    dbRead,     \* outcome of get_book_from_db_by_isbn: "none", "hit", "miss", "error"
    olResp,     \* HTTP response Open Library gave, or NoResp
    gbResp,     \* HTTP response Google Books gave, or NoResp
    olMeta,     \* what _fetch_from_openlibrary returned, or NotCalled
    gbMeta,     \* what _fetch_from_googlebooks returned, or NotCalled
    calls,      \* external calls made by the running request, in order
    result,     \* what fetch_book_info returned (or raised), or NoResult
    cvResp,     \* HTTP response to the title/author cover search, or NoResp
    cvResult,   \* what fetch_cover_by_title_author returned, or NotCalled
    gSubjects,  \* _normalize_genre's argument subjects
    gTitle,     \* _normalize_genre's argument title
    gDescription, \* _normalize_genre's argument description
    gOut,       \* what _normalize_genre returned, or NotCalled
    aName,      \* normalize_author_name's argument name
    aOut,       \* what normalize_author_name returned, or NotCalled
    absentBefore \* history: the ISBNs a finished resolve found at neither provider

vars == <<store, pc, isbn, dbRead, olResp, gbResp, olMeta, gbMeta, calls,
          result, cvResp, cvResult, gSubjects, gTitle, gDescription, gOut, aName, aOut, absentBefore>>

-----------------------------------------------------------------------------
(* Python values *)

None == [t |-> "None"]
Str(s) == [t |-> "str", s |-> s]
Num(n) == [t |-> "int", n |-> n]
List(xs) == [t |-> "list", xs |-> xs]
Dict(d) == [t |-> "dict", d |-> d]
Raise(e) == [t |-> "raise", e |-> e]

IsRaise(v) == v.t = "raise"

\* bool(v)
Truthy(v) ==
    CASE v.t = "None" -> FALSE
      [] v.t = "str" -> v.s # <<>>
      [] v.t = "int" -> v.n # 0
      [] v.t = "list" -> v.xs # <<>>
      [] v.t = "dict" -> DOMAIN v.d # {}
      [] OTHER -> FALSE

\* a or b
Or(a, b) == IF Truthy(a) THEN a ELSE b

\* d.get(k) and d.get(k, default) of a dict; any other receiver has no .get
Get(d, k) ==
    IF d.t # "dict" THEN Raise("AttributeError")
    ELSE IF k \in DOMAIN d.d THEN d.d[k] ELSE None

GetOr(d, k, default) ==
    IF d.t # "dict" THEN Raise("AttributeError")
    ELSE IF k \in DOMAIN d.d THEN d.d[k] ELSE default

-----------------------------------------------------------------------------
(* str methods *)

UPPER == <<"A","B","C","D","E","F","G","H","I","J","K","L","M","N","O","P","Q","R","S","T","U","V","W","X","Y","Z">>
LOWER == <<"a","b","c","d","e","f","g","h","i","j","k","l","m","n","o","p","q","r","s","t","u","v","w","x","y","z">>

Letters == {UPPER[i] : i \in 1..26} \cup {LOWER[i] : i \in 1..26}

LowerChar == [c \in Letters |->
                 IF \E i \in 1..26 : UPPER[i] = c
                 THEN LOWER[CHOOSE i \in 1..26 : UPPER[i] = c] ELSE c]

UpperChar == [c \in Letters |->
                 IF \E i \in 1..26 : LOWER[i] = c
                 THEN UPPER[CHOOSE i \in 1..26 : LOWER[i] = c] ELSE c]

\* str.lower()
ToLower(s) == [i \in 1..Len(s) |-> IF s[i] \in Letters THEN LowerChar[s[i]] ELSE s[i]]

\* str.title(): a letter that follows a letter is lower-cased, any other
\* letter is upper-cased, every other character is kept
ToTitle(s) ==
    [i \in 1..Len(s) |->
        IF s[i] \notin Letters THEN s[i]
        ELSE IF i > 1 /\ s[i - 1] \in Letters THEN LowerChar[s[i]]
        ELSE UpperChar[s[i]]]

IsSpace(c) == c \in {" ", "\t", "\n"}

\* str.strip()
Strip(s) ==
    IF \A i \in 1..Len(s) : IsSpace(s[i]) THEN <<>>
    ELSE LET first == CHOOSE i \in 1..Len(s) :
                          ~IsSpace(s[i]) /\ \A j \in 1..(i - 1) : IsSpace(s[j])
             last == CHOOSE i \in 1..Len(s) :
                          ~IsSpace(s[i]) /\ \A j \in (i + 1)..Len(s) : IsSpace(s[j])
         IN SubSeq(s, first, last)

\* w in text (substring)
Contains(text, w) ==
    \/ w = <<>>
    \/ \E i \in 1..(Len(text) - Len(w) + 1) :
          text[i] = w[1] /\ SubSeq(text, i, i + Len(w) - 1) = w

\* sep.join(parts) of a sequence of strings
RECURSIVE Join(_, _)
Join(sep, parts) ==
    IF parts = <<>> THEN <<>>
    ELSE IF Len(parts) = 1 THEN parts[1]
    ELSE parts[1] \o sep \o Join(sep, Tail(parts))

\* v.lower() of a value: only a str has it
Lower(v) == IF v.t = "str" THEN Str(ToLower(v.s)) ELSE Raise("AttributeError")

-----------------------------------------------------------------------------
(* _normalize_genre *)

CrimeWords == <<<<"c","r","i","m","e">>, <<"d","e","t","e","c","t","i","v","e">>, <<"p","o","l","i","c","e">>, <<"n","o","i","r">>, <<"m","u","r","d","e","r">>>>
ComedyWords == <<<<"c","o","m","e","d","y">>, <<"h","u","m","o","r">>, <<"h","u","m","o","u","r">>, <<"c","o","m","e","d","i","c">>, <<"s","a","t","i","r","e">>, <<"p","a","r","o","d","y">>>>
ThrillerWords == <<<<"t","h","r","i","l","l","e","r">>, <<"s","u","s","p","e","n","s","e">>, <<"c","o","n","s","p","i","r","a","c","y">>>>
FantasyWords == <<<<"f","a","n","t","a","s","y">>, <<"m","a","g","i","c">>, <<"d","r","a","g","o","n">>, <<"w","i","z","a","r","d">>, <<"m","y","t","h","i","c","a","l">>>>
SciFiWords == <<<<"s","c","i","e","n","c","e"," ","f","i","c","t","i","o","n">>, <<"s","c","i","-","f","i">>, <<"s","c","i"," ","f","i">>, <<"s","p","a","c","e">>, <<"d","y","s","t","o","p","i","a","n">>,
                <<"p","o","s","t","-","a","p","o","c","a","l","y","p","t","i","c">>, <<"c","y","b","e","r","p","u","n","k">>>>
HorrorWords == <<<<"h","o","r","r","o","r">>, <<"g","h","o","s","t">>, <<"h","a","u","n","t","e","d">>, <<"s","u","p","e","r","n","a","t","u","r","a","l">>, <<"v","a","m","p","i","r","e">>>>
MysteryWords == <<<<"m","y","s","t","e","r","y">>, <<"w","h","o","d","u","n","i","t">>, <<"d","e","t","e","c","t","i","v","e"," ","s","t","o","r","y">>>>
RomanceWords == <<<<"r","o","m","a","n","c","e">>, <<"l","o","v","e"," ","s","t","o","r","y">>, <<"r","o","m","a","n","t","i","c">>>>
YoungAdultWords == <<<<"y","o","u","n","g"," ","a","d","u","l","t">>, <<"y","a">>, <<"t","e","e","n"," ","f","i","c","t","i","o","n">>, <<"a","d","o","l","e","s","c","e","n","t">>>>
PoetryWords == <<<<"p","o","e","t","r","y">>, <<"p","o","e","m">>, <<"v","e","r","s","e">>>>
BiographyWords == <<<<"b","i","o","g","r","a","p","h","y">>, <<"m","e","m","o","i","r">>, <<"a","u","t","o","b","i","o","g","r","a","p","h","y">>>>
HistoryWords == <<<<"h","i","s","t","o","r","y">>, <<"h","i","s","t","o","r","i","c","a","l">>>>
PhilosophyWords == <<<<"p","h","i","l","o","s","o","p","h","y">>, <<"e","x","i","s","t","e","n","t","i","a","l","i","s","m">>, <<"e","t","h","i","c","s">>, <<"m","e","t","a","p","h","y","s","i","c","s">>>>
SelfHelpWords == <<<<"s","e","l","f","-","h","e","l","p">>, <<"s","e","l","f"," ","h","e","l","p">>, <<"p","e","r","s","o","n","a","l"," ","g","r","o","w","t","h">>, <<"m","o","t","i","v","a","t","i","o","n">>>>
BusinessWords == <<<<"b","u","s","i","n","e","s","s">>, <<"m","a","n","a","g","e","m","e","n","t">>, <<"l","e","a","d","e","r","s","h","i","p">>, <<"e","n","t","r","e","p","r","e","n","e","u","r">>,
                   <<"e","c","o","n","o","m","i","c","s">>>>
AnthologyWords == <<<<"a","n","t","h","o","l","o","g","y">>, <<"c","o","l","l","e","c","t","i","o","n">>, <<"s","h","o","r","t"," ","s","t","o","r","i","e","s">>, <<"c","o","m","p","i","l","e","d">>>>
\* (mutant of FictionWords: only the full label is looked for)
FictionWordsLiterary == <<<<"l","i","t","e","r","a","r","y"," ","f","i","c","t","i","o","n">>>>

FictionWords == <<<<"f","i","c","t","i","o","n">>>>
NonFictionWords == <<<<"l","a","n","g","u","a","g","e">>, <<"c","u","l","t","u","r","e">>, <<"s","o","c","i","e","t","y">>, <<"p","o","l","i","t","i","c","s">>, <<"e","s","s","a","y","s">>,
                     <<"s","o","c","i","a","l"," ","l","i","f","e">>, <<"r","e","p","o","r","t","a","g","e">>>>

GENERIC == {<<"f","i","c","t","i","o","n">>, <<"n","o","n","f","i","c","t","i","o","n">>, <<"l","i","t","e","r","a","t","u","r","e">>, <<"j","u","v","e","n","i","l","e"," ","f","i","c","t","i","o","n">>,
            <<"j","u","v","e","n","i","l","e"," ","n","o","n","f","i","c","t","i","o","n">>}

\* has(*words): any(w in text for w in words)
has(text, words) == \E k \in 1..Len(words) : Contains(text, words[k])

\* for s in subjects: if s not in GENERIC: return s.title();  return None
LastFallback(subjects) ==
    IF \E k \in 1..Len(subjects) : subjects[k] \notin GENERIC
    THEN Str(ToTitle(subjects[CHOOSE k \in 1..Len(subjects) :
                         /\ subjects[k] \notin GENERIC
                         /\ \A j \in 1..(k - 1) : subjects[j] \in GENERIC]))
    ELSE None

\* (mutant of Rules: the Romance rule is tried before the Crime rule)
RulesRomanceFirst(text, subjects) ==
    IF has(text, RomanceWords) THEN Str(<<"R","o","m","a","n","c","e">>)
    ELSE IF has(text, CrimeWords) THEN Str(<<"C","r","i","m","e">>)
    ELSE IF has(text, ComedyWords) THEN Str(<<"C","o","m","e","d","y">>)
    ELSE IF has(text, ThrillerWords) THEN Str(<<"T","h","r","i","l","l","e","r">>)
    ELSE IF has(text, FantasyWords) THEN Str(<<"F","a","n","t","a","s","y">>)
    ELSE IF has(text, SciFiWords) THEN Str(<<"S","c","i","e","n","c","e"," ","F","i","c","t","i","o","n">>)
    ELSE IF has(text, HorrorWords) THEN Str(<<"H","o","r","r","o","r">>)
    ELSE IF has(text, MysteryWords) THEN Str(<<"M","y","s","t","e","r","y">>)
    ELSE IF has(text, YoungAdultWords) THEN Str(<<"Y","o","u","n","g"," ","A","d","u","l","t">>)
    ELSE IF has(text, PoetryWords) THEN Str(<<"P","o","e","t","r","y">>)
    ELSE IF has(text, BiographyWords) THEN Str(<<"B","i","o","g","r","a","p","h","y">>)
    ELSE IF has(text, HistoryWords) THEN Str(<<"H","i","s","t","o","r","y">>)
    ELSE IF has(text, PhilosophyWords) THEN Str(<<"P","h","i","l","o","s","o","p","h","y">>)
    ELSE IF has(text, SelfHelpWords) THEN Str(<<"S","e","l","f","-","H","e","l","p">>)
    ELSE IF has(text, BusinessWords) THEN Str(<<"B","u","s","i","n","e","s","s">>)
    ELSE IF has(text, AnthologyWords) THEN Str(<<"A","n","t","h","o","l","o","g","y">>)
    ELSE IF has(text, FictionWords) THEN Str(<<"L","i","t","e","r","a","r","y"," ","F","i","c","t","i","o","n">>)
    ELSE IF has(text, NonFictionWords) THEN Str(<<"N","o","n","-","F","i","c","t","i","o","n">>)
    ELSE LastFallback(subjects)

\* the prioritised rules over the search text, then the fallbacks
Rules(text, subjects) ==
    IF has(text, CrimeWords) THEN Str(<<"C","r","i","m","e">>)
    ELSE IF has(text, ComedyWords) THEN Str(<<"C","o","m","e","d","y">>)
    ELSE IF has(text, ThrillerWords) THEN Str(<<"T","h","r","i","l","l","e","r">>)
    ELSE IF has(text, FantasyWords) THEN Str(<<"F","a","n","t","a","s","y">>)
    ELSE IF has(text, SciFiWords) THEN Str(<<"S","c","i","e","n","c","e"," ","F","i","c","t","i","o","n">>)
    ELSE IF has(text, HorrorWords) THEN Str(<<"H","o","r","r","o","r">>)
    ELSE IF has(text, MysteryWords) THEN Str(<<"M","y","s","t","e","r","y">>)
    ELSE IF has(text, RomanceWords) THEN Str(<<"R","o","m","a","n","c","e">>)
    ELSE IF has(text, YoungAdultWords) THEN Str(<<"Y","o","u","n","g"," ","A","d","u","l","t">>)
    ELSE IF has(text, PoetryWords) THEN Str(<<"P","o","e","t","r","y">>)
    ELSE IF has(text, BiographyWords) THEN Str(<<"B","i","o","g","r","a","p","h","y">>)
    ELSE IF has(text, HistoryWords) THEN Str(<<"H","i","s","t","o","r","y">>)
    ELSE IF has(text, PhilosophyWords) THEN Str(<<"P","h","i","l","o","s","o","p","h","y">>)
    ELSE IF has(text, SelfHelpWords) THEN Str(<<"S","e","l","f","-","H","e","l","p">>)
    ELSE IF has(text, BusinessWords) THEN Str(<<"B","u","s","i","n","e","s","s">>)
    ELSE IF has(text, AnthologyWords) THEN Str(<<"A","n","t","h","o","l","o","g","y">>)
    ELSE IF has(text, FictionWords) THEN Str(<<"L","i","t","e","r","a","r","y"," ","F","i","c","t","i","o","n">>)
    ELSE IF has(text, NonFictionWords) THEN Str(<<"N","o","n","-","F","i","c","t","i","o","n">>)
    ELSE LastFallback(subjects)

\* iter(v): the items a for-loop over v visits. A list gives its entries, a
\* str its characters; None and int are not iterable. (No dict is iterated
\* by the inputs modelled here.)
Items(v) ==
    CASE v.t = "list" -> v
      [] v.t = "str" -> List([i \in 1..Len(v.s) |-> Str(<<v.s[i]>>)])
      [] v.t = "raise" -> v
      [] OTHER -> Raise("TypeError")

\* [s.lower() for s in (subjects or [])]
LowerAll(subjects) ==
    LET xs == Items(Or(subjects, List(<<>>)))
    IN  IF IsRaise(xs) THEN xs
        ELSE IF \E k \in 1..Len(xs.xs) : xs.xs[k].t # "str" THEN Raise("AttributeError")
        ELSE List([k \in 1..Len(xs.xs) |-> ToLower(xs.xs[k].s)])

_normalize_genre(subjects, title, description) ==
    LET t == Lower(Or(title, Str(<<>>)))
        d == Lower(Or(description, Str(<<>>)))
        ss == LowerAll(subjects)
    IN  IF IsRaise(t) THEN t
        ELSE IF IsRaise(d) THEN d
        ELSE IF IsRaise(ss) THEN ss
        ELSE Rules(Join(<<" ">>, ss.xs \o <<t.s, d.s>>), ss.xs)

-----------------------------------------------------------------------------
(* HTTP: what requests.get(...), raise_for_status() and resp.json() give *)

ConnectionError == [k |-> "ConnectionError"]   \* requests.get raises
Timeout == [k |-> "Timeout"]                   \* requests.get raises after API_TIMEOUT
HTTPError == [k |-> "HTTPError"]               \* raise_for_status() raises (non-2xx)
BadBody == [k |-> "JSONDecodeError"]           \* resp.json() raises
Ok(json) == [k |-> "ok", json |-> json]        \* resp.json() returns json

\* resp = requests.get(...); resp.raise_for_status(); data = resp.json()
Fetch(resp) == IF resp.k = "ok" THEN resp.json ELSE Raise(resp.k)

\* (mutant of ExceptReturnNone: only a connection error is caught)
ExceptConnectionError(v) == IF IsRaise(v) /\ v.e = "ConnectionError" THEN None ELSE v

\* try: ... except Exception: log; return None
ExceptReturnNone(v) == IF IsRaise(v) THEN None ELSE v

\* key in data, for a dict or a list of JSON values (no list holds the key);
\* None and int are no containers
In(key, data) == data.t = "dict" /\ key \in DOMAIN data.d

IsContainer(data) == data.t \in {"dict", "list"}

\* [a.get("name") for a in v if a.get("name")]
NamesOf(v) ==
    LET xs == Items(v)
    IN  IF IsRaise(xs) THEN xs
        ELSE IF \E k \in 1..Len(xs.xs) : xs.xs[k].t # "dict" THEN Raise("AttributeError")
        ELSE LET names == [k \in 1..Len(xs.xs) |-> Get(xs.xs[k], "name")]
             IN  List(SelectSeq(names, Truthy))

\* (mutant of OLCover: the large cover is preferred to the medium one)
OLCoverLargeFirst(cover) ==
    IF cover.t # "dict" THEN Raise("AttributeError")
    ELSE Or(Get(cover, "large"), Or(Get(cover, "medium"), Get(cover, "small")))

\* cover.get("medium") or cover.get("large") or cover.get("small")
OLCover(cover) ==
    IF cover.t # "dict" THEN Raise("AttributeError")
    ELSE Or(Get(cover, "medium"), Or(Get(cover, "large"), Get(cover, "small")))

\* description: a dict gives its "value", a str itself, anything else None
OLDescription(description) ==
    IF description.t = "dict" THEN Get(description, "value")
    ELSE IF description.t # "str" THEN None
    ELSE description

\* the body of _fetch_from_openlibrary's try block
OpenLibraryTry(i, resp) ==
    LET data == Fetch(resp)
        key == "ISBN:" \o i
    IN  IF IsRaise(data) THEN data
        ELSE IF ~IsContainer(data) THEN Raise("TypeError")
        ELSE IF ~In(key, data) THEN None
        ELSE LET entry == data.d[key]
                 title == Get(entry, "title")
                 authors == NamesOf(GetOr(entry, "authors", List(<<>>)))
                 cover == Or(Get(entry, "cover"), Dict(<<>>))
                 cover_url == OLCover(cover)
                 subjects == NamesOf(GetOr(entry, "subjects", List(<<>>)))
                 description == OLDescription(Get(entry, "description"))
             IN  IF IsRaise(title) THEN title
                 ELSE IF IsRaise(authors) THEN authors
                 ELSE IF IsRaise(cover_url) THEN cover_url
                 ELSE IF IsRaise(subjects) THEN subjects
                 ELSE Dict([title |-> title, authors |-> authors,
                            cover_url |-> cover_url, subjects |-> subjects,
                            description |-> description])

_fetch_from_openlibrary(i, resp) == ExceptReturnNone(OpenLibraryTry(i, resp))

\* image_links.get("thumbnail") or image_links.get("smallThumbnail")
GBCover(image_links) ==
    IF image_links.t # "dict" THEN Raise("AttributeError")
    ELSE Or(Get(image_links, "thumbnail"), Get(image_links, "smallThumbnail"))

\* items[0] of a truthy items
First(items) ==
    CASE items.t = "list" -> items.xs[1]
      [] items.t = "str" -> Str(<<items.s[1]>>)
      [] items.t = "dict" -> Raise("KeyError")
      [] OTHER -> Raise("TypeError")

\* the body of _fetch_from_googlebooks's try block
GoogleBooksTry(i, resp) ==
    LET data == Fetch(resp)
    IN  IF IsRaise(data) THEN data
        ELSE LET items == Get(data, "items")
             IN  IF IsRaise(items) THEN items
                 ELSE IF ~Truthy(items) THEN None
                 ELSE IF IsRaise(First(items)) THEN First(items)
                 ELSE LET volume_info == GetOr(First(items), "volumeInfo", Dict(<<>>))
                          title == Get(volume_info, "title")
                          authors == Or(Get(volume_info, "authors"), List(<<>>))
                          image_links == Or(Get(volume_info, "imageLinks"), Dict(<<>>))
                          cover_url == GBCover(image_links)
                          subjects == Or(Get(volume_info, "categories"), List(<<>>))
                          description == Get(volume_info, "description")
                      IN  IF IsRaise(volume_info) THEN volume_info
                          ELSE IF IsRaise(title) THEN title
                          ELSE IF IsRaise(cover_url) THEN cover_url
                          ELSE Dict([title |-> title, authors |-> authors,
                                     cover_url |-> cover_url, subjects |-> subjects,
                                     description |-> description])

_fetch_from_googlebooks(i, resp) == ExceptReturnNone(GoogleBooksTry(i, resp))

\* for item in items: ... if cover_url: return cover_url;  return None
RECURSIVE FirstCover(_)
FirstCover(items) ==
    IF items = <<>> THEN None
    ELSE LET info == GetOr(items[1], "volumeInfo", Dict(<<>>))
             image_links == IF IsRaise(info) THEN info
                            ELSE Or(Get(info, "imageLinks"), Dict(<<>>))
             cover_url == IF IsRaise(image_links) THEN image_links
                          ELSE GBCover(image_links)
         IN  IF IsRaise(cover_url) THEN cover_url
             ELSE IF Truthy(cover_url) THEN cover_url
             ELSE FirstCover(Tail(items))

\* the body of fetch_cover_by_title_author's try block; the query string
\* (title, author, maxResults = 5) only selects the upstream's answer
CoverByTitleAuthorTry(resp) ==
    LET data == Fetch(resp)
    IN  IF IsRaise(data) THEN data
        ELSE LET items == Get(data, "items")
             IN  IF IsRaise(items) THEN items
                 ELSE IF IsRaise(Items(Or(items, List(<<>>))))
                      THEN Items(Or(items, List(<<>>)))
                 ELSE FirstCover(Items(Or(items, List(<<>>))).xs)

fetch_cover_by_title_author(resp) == ExceptReturnNone(CoverByTitleAuthorTry(resp))

-----------------------------------------------------------------------------
(* normalize_author_name *)

\* (mutant of SplitFirstComma: the name is split at its last comma)
SplitLastComma(s) ==
    LET k == CHOOSE i \in 1..Len(s) : s[i] = "," /\ \A j \in (i + 1)..Len(s) : s[j] # ","
    IN  <<SubSeq(s, 1, k - 1), SubSeq(s, k + 1, Len(s))>>

\* name.split(",", 1) at the first comma: <<before, after>>
SplitFirstComma(s) ==
    LET k == CHOOSE i \in 1..Len(s) : s[i] = "," /\ \A j \in 1..(i - 1) : s[j] # ","
    IN  <<SubSeq(s, 1, k - 1), SubSeq(s, k + 1, Len(s))>>

normalize_author_name(name) ==
    LET n == Or(name, Str(<<>>))
    IN  IF n.t # "str" THEN Raise("AttributeError")
        ELSE LET s == Strip(n.s)
             IN  IF \E i \in 1..Len(s) : s[i] = ","
                 THEN LET last == Strip(SplitFirstComma(s)[1])
                          first == Strip(SplitFirstComma(s)[2])
                      IN  IF last # <<>> /\ first # <<>>
                          THEN Str(first \o <<" ">> \o last)
                          ELSE Str(s)
                 ELSE Str(s)

-----------------------------------------------------------------------------
(* fetch_book_info *)

UnknownTitle == Str(<<"U","n","k","n","o","w","n"," ","t","i","t","l","e">>)
UnknownAuthor == Str(<<"U","n","k","n","o","w","n"," ","a","u","t","h","o","r">>)

\* the 4-tuple fetch_book_info returns
Tuple(title, author, cover_url, genre) ==
    [t |-> "tuple", title |-> title, author |-> author,
     cover_url |-> cover_url, genre |-> genre]

NoRow == None

\* (mutant of get_book_from_db_by_isbn: an ISBN that no provider knew is
\* remembered and answered with an empty record)
get_book_negative_cache(db, i) ==
    IF i \in absentBefore /\ ~Truthy(db[i])
    THEN Dict([title |-> None, author |-> None, cover_url |-> None, genre |-> None])
    ELSE IF ~Truthy(db[i]) THEN None
    ELSE Dict([title |-> db[i].d.title, author |-> db[i].d.author,
               cover_url |-> db[i].d.cover_url, genre |-> db[i].d.genre])

\* get_book_from_db_by_isbn: the row's four columns as a dict, or None
get_book_from_db_by_isbn(db, i) ==
    IF ~Truthy(db[i]) THEN None
    ELSE Dict([title |-> db[i].d.title, author |-> db[i].d.author,
               cover_url |-> db[i].d.cover_url, genre |-> db[i].d.genre])

\* (mutant of CacheResult: the stored fields are returned without the fallbacks)
CacheResultNoFallback(cached) ==
    Tuple(Get(cached, "title"), Get(cached, "author"),
          Get(cached, "cover_url"), Get(cached, "genre"))

\* the return of the cache branch
CacheResult(cached) ==
    Tuple(Or(Get(cached, "title"), UnknownTitle),
          Or(Get(cached, "author"), UnknownAuthor),
          Get(cached, "cover_url"),
          Get(cached, "genre"))

\* (mutant of Absent: a record without a title counts as not found)
AbsentOrUntitled(meta) == ~Truthy(meta) \/ ~Truthy(Get(meta, "title"))

\* "if not meta": the next provider is tried, or nothing was found
Absent(meta) == ~Truthy(meta)

\* (mutant of NothingFound: nothing found is returned as four Nones)
NothingFoundNone == Tuple(None, None, None, None)

\* return "Unknown title", "Unknown author", None, None
NothingFound == Tuple(UnknownTitle, UnknownAuthor, None, None)

\* [normalize_author_name(a) for a in authors]
NormalizeAll(authors) ==
    LET xs == Items(authors)
    IN  IF IsRaise(xs) THEN xs
        ELSE LET ns == [k \in 1..Len(xs.xs) |-> normalize_author_name(xs.xs[k])]
             IN  IF \E k \in 1..Len(ns) : IsRaise(ns[k]) THEN Raise("AttributeError")
                 ELSE List(ns)

\* ", ".join(authors) if authors else "Unknown author"
AuthorStr(authors) ==
    IF authors.xs = <<>> THEN UnknownAuthor
    ELSE Str(Join(<<",", " ">>, [k \in 1..Len(authors.xs) |-> authors.xs[k].s]))

\* the field composition from the metadata a provider gave
Compose(meta) ==
    LET title == Or(Get(meta, "title"), UnknownTitle)
        authors == NormalizeAll(Or(Get(meta, "authors"), List(<<>>)))
        cover_url == Get(meta, "cover_url")
        subjects == Or(Get(meta, "subjects"), List(<<>>))
        description == Get(meta, "description")
        genre == _normalize_genre(subjects, title, description)
    IN  IF IsRaise(authors) THEN authors
        ELSE IF IsRaise(genre) THEN genre
        ELSE Tuple(title, AuthorStr(authors), cover_url, genre)

-----------------------------------------------------------------------------
(* The inputs: ISBNs, stored rows, upstream answers *)

ISBNs == {"0000000000", "9780007119318"}

Missing == [t |-> "missing"]

\* a JSON object holding the fields that are not Missing
Object(fields) ==
    Dict([k \in {f \in DOMAIN fields : fields[f] # Missing} |-> fields[k]])

Row(title, author, cover_url, genre) ==
    Dict([title |-> title, author |-> author, cover_url |-> cover_url, genre |-> genre])

\* rows of the books table: every column is a nullable TEXT
Rows ==
    { Row(Str(<<"E","m","m","a">>), Str(<<"J","a","n","e"," ","A","u","s","t","e","n">>), Str(<<"e",".","j","p","g">>), Str(<<"R","o","m","a","n","c","e">>)),
      Row(Str(<<>>), Str(<<>>), None, None),
      Row(None, None, Str(<<>>), Str(<<>>)) }

\* the table when the application starts
InitialStores ==
    { [i \in ISBNs |-> IF i = "9780007119318" THEN r ELSE NoRow] : r \in Rows \cup {NoRow} }
    \cup { [i \in ISBNs |-> Row(Str(<<"E","m","m","a">>), Str(<<>>), None, Str(<<"R","o","m","a","n","c","e">>))] }

TitleValues == {Missing, Str(<<"E","m","m","a">>), Num(5)}

DescriptionValues == {Missing, Str(<<"A"," ","l","o","v","e"," ","s","t","o","r","y">>), Num(5)}

CrimeSubjects == <<<<"C","r","i","m","e"," ","f","i","c","t","i","o","n">>, <<"r","o","m","a","n","c","e"," ","s","u","b","p","l","o","t">>>>

\* Open Library: authors and subjects are lists of {"name": ...} objects
OLAuthorValues ==
    { Missing,
      List(<<Object([name |-> Str(<<"C","h","r","i","s","t","i","e",","," ","A","g","a","t","h","a">>)]),
             Object([name |-> Str(<<"N","e","i","l"," ","G","a","i","m","a","n">>)])>>),
      List(<<Object([name |-> Str(<<" ">>)])>>),
      List(<<Object([name |-> Num(5)])>>) }

OLSubjectValues ==
    { Missing,
      List([k \in 1..2 |-> Object([name |-> Str(CrimeSubjects[k])])]),
      List(<<Object([name |-> Num(5)])>>) }

\* a cover object offers any of medium, large and small; a size may also be
\* offered with an empty URL
OLCoverValues ==
    { Missing,
      Object([medium |-> Str(<<>>), large |-> Str(<<"l",".","j","p","g">>), small |-> Missing]),
      Object([medium |-> Missing, large |-> Missing, small |-> Str(<<>>)]) }
    \cup { Object([medium |-> m, large |-> l, small |-> sm]) :
              m \in {Missing, Str(<<"m",".","j","p","g">>)}, l \in {Missing, Str(<<"l",".","j","p","g">>)},
              sm \in {Missing, Str(<<"s",".","j","p","g">>)} }

OLDescriptionValues ==
    DescriptionValues \cup { Object([value |-> Str(<<"A"," ","l","o","v","e"," ","s","t","o","r","y">>)]),
                             Object([value |-> Num(5)]) }

OLEntries ==
    { Object([title |-> ti, authors |-> au, cover |-> co, subjects |-> su,
              description |-> de]) :
        ti \in TitleValues, au \in OLAuthorValues, co \in OLCoverValues,
        su \in OLSubjectValues, de \in OLDescriptionValues }

Failures == {ConnectionError, Timeout, HTTPError, BadBody}

\* what Open Library may answer to bibkeys=ISBN:i
OLResponses(i) ==
    Failures
    \cup { Ok(Dict(<<>>)), Ok(None), Ok(Dict([k \in {"ISBN:" \o i} |-> Str(<<"n","/","a">>)])) }
    \cup { Ok(Dict([k \in {"ISBN:" \o i} |-> e])) : e \in OLEntries }

\* Google Books: authors and categories are lists of strings
GBAuthorValues ==
    { Missing,
      List(<<Str(<<"C","h","r","i","s","t","i","e",","," ","A","g","a","t","h","a">>), Str(<<"N","e","i","l"," ","G","a","i","m","a","n">>)>>),
      List(<<Str(<<>>)>>),
      List(<<Num(5)>>) }

GBCategoryValues ==
    { Missing,
      List([k \in 1..2 |-> Str(CrimeSubjects[k])]),
      List(<<Num(5)>>) }

GBImageLinkValues ==
    { Missing,
      Object([thumbnail |-> Str(<<>>), smallThumbnail |-> Str(<<"s","t",".","j","p","g">>)]),
      Object([thumbnail |-> Missing, smallThumbnail |-> Str(<<>>)]) }
    \cup { Object([thumbnail |-> th, smallThumbnail |-> st]) :
              th \in {Missing, Str(<<"t",".","j","p","g">>)}, st \in {Missing, Str(<<"s","t",".","j","p","g">>)} }

GBVolumes ==
    { Object([title |-> ti, authors |-> au, imageLinks |-> im, categories |-> ca,
              description |-> de]) :
        ti \in TitleValues, au \in GBAuthorValues, im \in GBImageLinkValues,
        ca \in GBCategoryValues, de \in DescriptionValues }

\* what Google Books may answer to q=isbn:i
GBResponses ==
    Failures
    \cup { Ok(Dict(<<>>)), Ok(None), Ok(Object([items |-> List(<<>>)])),
           Ok(Object([items |-> List(<<Object([volumeInfo |-> None])>>)])) }
    \cup { Ok(Object([items |-> List(<<Object([volumeInfo |-> v])>>)])) : v \in GBVolumes }

\* what Google Books may answer to the title/author cover search
CoverResponses ==
    Failures
    \cup { Ok(Dict(<<>>)), Ok(None), Ok(Object([items |-> List(<<>>)])),
           Ok(Object([items |-> List(<<Str(<<"n","/","a">>)>>)])) }
    \cup { Ok(Object([items |-> List(<<Object([volumeInfo |-> Object([imageLinks |-> a])]),
                                       Object([volumeInfo |-> Object([imageLinks |-> b])])>>)])) :
             a \in GBImageLinkValues, b \in GBImageLinkValues }

-----------------------------------------------------------------------------
(* The state machine *)

NoResp == [k |-> "none"]
NotCalled == [t |-> "not called"]
NoResult == [t |-> "no result"]

Idle ==
    /\ pc = "idle"
    /\ isbn = ""
    /\ dbRead = "none"
    /\ olResp = NoResp /\ gbResp = NoResp
    /\ olMeta = NotCalled /\ gbMeta = NotCalled
    /\ calls = <<>>
    /\ result = NoResult
    /\ cvResp = NoResp /\ cvResult = NotCalled

NoClassify ==
    /\ gSubjects = NotCalled /\ gTitle = NotCalled /\ gDescription = NotCalled
    /\ gOut = NotCalled

NoNormalize == aName = NotCalled /\ aOut = NotCalled

NoHistory == absentBefore = {}

Init ==
    /\ store \in InitialStores
    /\ Idle
    /\ NoClassify
    /\ NoNormalize
    /\ NoHistory

\* fetch_book_info(i), step 0: the local DB cache. A failing read is logged
\* and the external APIs are tried.
CheckCache(i) ==
    /\ pc = "idle"
    /\ isbn' = i
    /\ \E dbUp \in BOOLEAN :
          IF ~dbUp
          THEN dbRead' = "error" /\ pc' = "openlibrary" /\ result' = result
          ELSE LET cached == get_book_from_db_by_isbn(store, i)
               IN  IF Truthy(cached)
                   THEN dbRead' = "hit" /\ pc' = "done" /\ result' = CacheResult(cached)
                   ELSE dbRead' = "miss" /\ pc' = "openlibrary" /\ result' = result
    /\ UNCHANGED <<store, olResp, gbResp, olMeta, gbMeta, calls, cvResp, cvResult,
                   gSubjects, gTitle, gDescription, gOut, aName, aOut, absentBefore>>

\* (mutant of AfterOpenLibrary: an absent Open Library answer is asked for again)
AfterOpenLibraryRetry(meta) == IF Absent(meta) THEN "openlibrary" ELSE "done"

\* where fetch_book_info goes after the Open Library call: "if not meta" leads
\* to the Google Books call, anything else to the composition
AfterOpenLibrary(meta) == IF Absent(meta) THEN "googlebooks" ELSE "done"

\* step 1: meta = _fetch_from_openlibrary(isbn); a non-absent meta is composed
\* and returned
FetchOpenLibraryFrom(responses) ==
    /\ pc = "openlibrary"
    /\ \E resp \in responses :
          LET meta == _fetch_from_openlibrary(isbn, resp)
          IN  /\ olResp' = resp
              /\ olMeta' = meta
              /\ calls' = Append(calls, "openlibrary")
              /\ pc' = AfterOpenLibrary(meta)
              /\ result' = IF Absent(meta) THEN result ELSE Compose(meta)
    /\ UNCHANGED <<store, isbn, dbRead, gbResp, gbMeta, cvResp, cvResult,
                   gSubjects, gTitle, gDescription, gOut, aName, aOut, absentBefore>>

FetchOpenLibrary == FetchOpenLibraryFrom(OLResponses(isbn))

\* if not meta: meta = _fetch_from_googlebooks(isbn); then the terminal
\* result or the composition
FetchGoogleBooksFrom(responses) ==
    /\ pc = "googlebooks"
    /\ \E resp \in responses :
          LET meta == _fetch_from_googlebooks(isbn, resp)
          IN  /\ gbResp' = resp
              /\ gbMeta' = meta
              /\ calls' = Append(calls, "googlebooks")
              /\ result' = IF Absent(meta) THEN NothingFound ELSE Compose(meta)
    /\ pc' = "done"
    /\ UNCHANGED <<store, isbn, dbRead, olResp, olMeta, cvResp, cvResult,
                   gSubjects, gTitle, gDescription, gOut, aName, aOut, absentBefore>>

FetchGoogleBooks == FetchGoogleBooksFrom(GBResponses)

\* the title/author cover search, as add_book calls it
CoverSearch ==
    /\ pc = "idle"
    /\ \E resp \in CoverResponses :
          /\ cvResp' = resp
          /\ cvResult' = fetch_cover_by_title_author(resp)
    /\ calls' = Append(calls, "cover_search")
    /\ pc' = "cover_done"
    /\ UNCHANGED <<store, isbn, dbRead, olResp, gbResp, olMeta, gbMeta, result,
                   gSubjects, gTitle, gDescription, gOut, aName, aOut, absentBefore>>

\* the caller has its answer; the next request starts from scratch
Reset ==
    /\ pc' = "idle"
    /\ isbn' = ""
    /\ dbRead' = "none"
    /\ olResp' = NoResp /\ gbResp' = NoResp
    /\ olMeta' = NotCalled /\ gbMeta' = NotCalled
    /\ calls' = <<>>
    /\ result' = NoResult
    /\ cvResp' = NoResp /\ cvResult' = NotCalled

Return ==
    /\ pc \in {"done", "cover_done"}
    /\ Reset
    /\ UNCHANGED <<store, gSubjects, gTitle, gDescription, gOut, aName, aOut, absentBefore>>

Next ==
    \/ \E i \in ISBNs : CheckCache(i)
    \/ FetchOpenLibrary
    \/ FetchGoogleBooks
    \/ CoverSearch
    \/ Return

Spec == Init /\ [][Next]_vars

-----------------------------------------------------------------------------
(* _normalize_genre on its own: the inputs are drawn in the initial state *)

MaxSubjects == 2

SubjectVocabulary ==
    { <<"C","r","i","m","e"," ","f","i","c","t","i","o","n">>, <<"S","a","t","i","r","e">>, <<"S","u","s","p","e","n","s","e">>, <<"D","r","a","g","o","n","s">>, <<"S","c","i","-","F","i">>,
      <<"G","h","o","s","t"," ","s","t","o","r","i","e","s">>, <<"W","h","o","d","u","n","i","t">>, <<"r","o","m","a","n","c","e"," ","s","u","b","p","l","o","t">>, <<"Y","o","u","n","g"," ","A","d","u","l","t">>,
      <<"P","o","e","m","s">>, <<"M","e","m","o","i","r">>, <<"H","i","s","t","o","r","i","c","a","l">>, <<"E","t","h","i","c","s">>, <<"S","e","l","f","-","H","e","l","p">>,
      <<"L","e","a","d","e","r","s","h","i","p">>, <<"S","h","o","r","t"," ","s","t","o","r","i","e","s">>,
      <<"F","i","c","t","i","o","n">>, <<"j","u","v","e","n","i","l","e"," ","f","i","c","t","i","o","n">>, <<"L","i","t","e","r","a","t","u","r","e">>, <<"E","s","s","a","y","s">>, <<"c","o","o","k","i","n","g">>,
      <<"n","o","n","f","i","c","t","i","o","n">>, <<"J","u","v","e","n","i","l","e"," ","N","o","n","f","i","c","t","i","o","n">>,
      <<>> }

SubjectLists ==
    UNION { [1..n -> {Str(s) : s \in SubjectVocabulary}] : n \in 0..MaxSubjects }

ClassifyTitles ==
    {None, Str(<<"a"," ","p","h","i","l","o","s","o","p","h","i","c","a","l"," ","t","r","e","a","t","i","s","e">>), Str(<<"A"," ","T","r","e","a","t","i","s","e"," ","o","n"," ","P","h","i","l","o","s","o","p","h","y">>)}

ClassifyDescriptions == {None, Str(<<"A"," ","l","o","v","e"," ","s","t","o","r","y">>)}

InitClassify ==
    /\ store = [i \in ISBNs |-> NoRow]
    /\ Idle
    /\ gSubjects \in {List(ss) : ss \in SubjectLists}
    /\ gTitle \in ClassifyTitles
    /\ gDescription \in ClassifyDescriptions
    /\ gOut = NotCalled
    /\ NoNormalize
    /\ NoHistory

Classify ==
    /\ gOut = NotCalled
    /\ gSubjects # NotCalled
    /\ gOut' = _normalize_genre(gSubjects, gTitle, gDescription)
    /\ UNCHANGED <<store, pc, isbn, dbRead, olResp, gbResp, olMeta, gbMeta, calls,
                   result, cvResp, cvResult, gSubjects, gTitle, gDescription,
                   aName, aOut, absentBefore>>

SpecClassify == InitClassify /\ [][Classify]_vars

-----------------------------------------------------------------------------
(* Properties of fetch_book_info, checked under Spec *)

Resolving == isbn # ""
Done == pc = "done"
Empty(v) == v = None \/ v = Str(<<>>)

\* the record a stored row resolves to
ResolvedRow(row) ==
    Tuple(IF Empty(row.d.title) THEN Str(<<"U","n","k","n","o","w","n"," ","t","i","t","l","e">>) ELSE row.d.title,
          IF Empty(row.d.author) THEN Str(<<"U","n","k","n","o","w","n"," ","a","u","t","h","o","r">>) ELSE row.d.author,
          row.d.cover_url, row.d.genre)

NoExternalCall ==
    calls = <<>> /\ olMeta = NotCalled /\ gbMeta = NotCalled /\ cvResult = NotCalled

\* C1 (as stated): for every ISBN that has a record in the store, resolve
\* returns that record (sentinels only for an empty title/author, cover_url and
\* genre as stored) and calls no provider.
C1_StoredIsbnNeverCallsOut ==
    (Resolving /\ store[isbn] # NoRow) =>
        /\ NoExternalCall
        /\ Done => result = ResolvedRow(store[isbn])

\* C1 (amended): the same, for every ISBN that has a record in the store and
\* whose store read does not fail.
C1_CacheHitReturnsRecord ==
    (Resolving /\ store[isbn] # NoRow /\ dbRead # "error") =>
        /\ NoExternalCall
        /\ Done
        /\ result = ResolvedRow(store[isbn])

C1_Witness ==
    /\ Done /\ dbRead = "hit"
    /\ store[isbn].d.title = Str(<<>>) /\ store[isbn].d.cover_url = None
    /\ result.title = Str(<<"U","n","k","n","o","w","n"," ","t","i","t","l","e">>) /\ result.cover_url = None

\* C2: on a cache miss the primary provider is called first, the secondary is
\* called if and only if the primary returned absent, and a non-absent primary
\* result is the one the resolved fields are composed from.
C2_ProviderChain ==
    (Resolving /\ dbRead \in {"miss", "error"}) =>
        /\ calls # <<>> => calls[1] = "openlibrary"
        /\ gbMeta # NotCalled =>
              olMeta = None /\ calls = <<"openlibrary", "googlebooks">>
        /\ (Done /\ olMeta = None) => gbMeta # NotCalled
        /\ (Done /\ olMeta # None) =>
              /\ olMeta.t = "dict"
              /\ gbMeta = NotCalled /\ gbResp = NoResp
              /\ calls = <<"openlibrary">>
              /\ result = Compose(olMeta)
              /\ result.t = "tuple" => result.cover_url = olMeta.d.cover_url

C2_Witness ==
    /\ Done /\ dbRead = "miss"
    /\ olMeta = None /\ gbMeta.t = "dict"
    /\ result.t = "tuple" /\ result.title = Str(<<"E","m","m","a">>)

\* C3: the title and the author resolve returns are non-empty strings, also
\* when a provider's author entries are empty or blank after normalization.
C3_TitleAuthorNeverEmpty ==
    (Done /\ result.t = "tuple") =>
        /\ result.title.t = "str" /\ result.title.s # <<>>
        /\ result.author.t = "str" /\ result.author.s # <<>>

\* the metadata of a record that carries none of the fields
AllFieldsAbsent ==
    Dict([title |-> None, authors |-> List(<<>>), cover_url |-> None,
          subjects |-> List(<<>>), description |-> None])

\* C4: on a cache miss, a primary record that carries none of the fields is
\* treated as absent and the secondary provider is queried.
C4_AllFieldsAbsentIsNotFound ==
    (Done /\ dbRead = "miss" /\ olMeta = AllFieldsAbsent) => gbMeta # NotCalled

WellFormed(r) ==
    /\ r.t = "tuple"
    /\ r.title.t = "str" /\ r.author.t = "str"
    /\ r.cover_url.t \in {"str", "None"} /\ r.genre.t \in {"str", "None"}

\* C5: whatever the shape of the provider's payload, resolve returns a
\* well-formed (title, author, cover_url, genre) tuple and does not raise.
C5_MalformedPayloadNeverRaises == Done => WellFormed(result)

\* the outcome of a plain cache miss with the given provider answers
MissOutcome(i, ol, gb) ==
    LET m1 == _fetch_from_openlibrary(i, ol)
    IN  IF ~Absent(m1) THEN Compose(m1)
        ELSE LET m2 == _fetch_from_googlebooks(i, gb)
             IN  IF Absent(m2) THEN NothingFound ELSE Compose(m2)

\* C6: when the store read fails, what the caller gets from resolve differs
\* from what a plain cache miss with the same provider answers gives.
C6_StoreFailureIsDistinct ==
    (Done /\ dbRead = "error") => result # MissOutcome(isbn, olResp, gbResp)

\* the upstream has no record for the key
NoRecordOL(i, resp) ==
    resp.k = "ok" /\ resp.json.t = "dict" /\ ("ISBN:" \o i) \notin DOMAIN resp.json.d

NoRecordGB(resp) ==
    /\ resp.k = "ok" /\ resp.json.t = "dict"
    /\ "items" \in DOMAIN resp.json.d => resp.json.d.items = List(<<>>)

FailedCall(resp) ==
    resp.k \in {"ConnectionError", "Timeout", "HTTPError", "JSONDecodeError"}

\* C7: each provider client returns absent, and never raises, when the
\* upstream has no record, the HTTP call fails, the body is unparseable or the
\* request times out.
C7_ClientsReturnAbsent ==
    /\ olMeta.t # "raise" /\ gbMeta.t # "raise" /\ cvResult.t # "raise"
    /\ (olResp # NoResp /\ (FailedCall(olResp) \/ NoRecordOL(isbn, olResp))) => olMeta = None
    /\ (gbResp # NoResp /\ (FailedCall(gbResp) \/ NoRecordGB(gbResp))) => gbMeta = None
    /\ (cvResp # NoResp /\ (FailedCall(cvResp) \/ NoRecordGB(cvResp))) => cvResult = None

C7_Witness ==
    /\ Done
    /\ olResp = Timeout /\ olMeta = None
    /\ gbResp = BadBody /\ gbMeta = None

\* C8: for an ISBN not in the store, when both providers return absent,
\* resolve returns ("Unknown title", "Unknown author", None, None).
C8_BothProvidersAbsent ==
    (Done /\ store[isbn] = NoRow /\ olMeta = None /\ gbMeta = None) =>
        result = Tuple(Str(<<"U","n","k","n","o","w","n"," ","t","i","t","l","e">>), Str(<<"U","n","k","n","o","w","n"," ","a","u","t","h","o","r">>), None, None)

C8_Witness ==
    /\ Done /\ isbn = "0000000000" /\ dbRead = "miss"
    /\ olResp = Ok(Dict(<<>>)) /\ olMeta = None
    /\ gbResp = HTTPError /\ gbMeta = None
    /\ result.title = Str(<<"U","n","k","n","o","w","n"," ","t","i","t","l","e">>)

-----------------------------------------------------------------------------
(* Properties of _normalize_genre, checked under SpecClassify *)

Classified == gOut # NotCalled

EnumeratedLabels ==
    { <<"C","r","i","m","e">>, <<"C","o","m","e","d","y">>, <<"T","h","r","i","l","l","e","r">>, <<"F","a","n","t","a","s","y">>, <<"S","c","i","e","n","c","e"," ","F","i","c","t","i","o","n">>,
      <<"H","o","r","r","o","r">>, <<"M","y","s","t","e","r","y">>, <<"R","o","m","a","n","c","e">>, <<"Y","o","u","n","g"," ","A","d","u","l","t">>, <<"P","o","e","t","r","y">>,
      <<"B","i","o","g","r","a","p","h","y">>, <<"H","i","s","t","o","r","y">>, <<"P","h","i","l","o","s","o","p","h","y">>, <<"S","e","l","f","-","H","e","l","p">>, <<"B","u","s","i","n","e","s","s">>,
      <<"L","i","t","e","r","a","r","y"," ","F","i","c","t","i","o","n">>, <<"N","o","n","-","F","i","c","t","i","o","n">>, <<"A","n","t","h","o","l","o","g","y">> }

\* C9: classify returns an enumerated label, a title-cased subject or absent,
\* and never the empty string.
C9_LabelSubjectOrAbsent ==
    Classified =>
        \/ gOut = None
        \/ /\ gOut.t = "str"
           /\ gOut.s # <<>>
           /\ \/ gOut.s \in EnumeratedLabels
              \/ \E k \in 1..Len(gSubjects.xs) : gOut.s = ToTitle(gSubjects.xs[k].s)

\* the rules in the order the claim gives them
RuleOrder ==
    << [label |-> <<"C","r","i","m","e">>, words |-> CrimeWords],
       [label |-> <<"C","o","m","e","d","y">>, words |-> ComedyWords],
       [label |-> <<"T","h","r","i","l","l","e","r">>, words |-> ThrillerWords],
       [label |-> <<"F","a","n","t","a","s","y">>, words |-> FantasyWords],
       [label |-> <<"S","c","i","e","n","c","e"," ","F","i","c","t","i","o","n">>, words |-> SciFiWords],
       [label |-> <<"H","o","r","r","o","r">>, words |-> HorrorWords],
       [label |-> <<"M","y","s","t","e","r","y">>, words |-> MysteryWords],
       [label |-> <<"R","o","m","a","n","c","e">>, words |-> RomanceWords],
       [label |-> <<"Y","o","u","n","g"," ","A","d","u","l","t">>, words |-> YoungAdultWords],
       [label |-> <<"P","o","e","t","r","y">>, words |-> PoetryWords],
       [label |-> <<"B","i","o","g","r","a","p","h","y">>, words |-> BiographyWords],
       [label |-> <<"H","i","s","t","o","r","y">>, words |-> HistoryWords],
       [label |-> <<"P","h","i","l","o","s","o","p","h","y">>, words |-> PhilosophyWords],
       [label |-> <<"S","e","l","f","-","H","e","l","p">>, words |-> SelfHelpWords],
       [label |-> <<"B","u","s","i","n","e","s","s">>, words |-> BusinessWords],
       [label |-> <<"A","n","t","h","o","l","o","g","y">>, words |-> AnthologyWords] >>

StrOrEmpty(v) == IF v = None THEN <<>> ELSE v.s

\* the lower-cased concatenation of subjects, title and description
SearchText ==
    ToLower(Join(<<" ">>, [k \in 1..Len(gSubjects.xs) |-> gSubjects.xs[k].s]
                           \o <<StrOrEmpty(gTitle), StrOrEmpty(gDescription)>>))

Matching ==
    LET text == SearchText
    IN  {k \in 1..Len(RuleOrder) : has(text, RuleOrder[k].words)}

\* C10: classify returns the label of the first rule, in the order Crime,
\* Comedy, ..., Business, Anthology, one of whose keywords occurs in the
\* lower-cased text; of two matching rules the earlier one wins.
C10_FirstMatchingRuleWins ==
    Classified =>
        LET m == Matching
        IN  m # {} => gOut = Str(RuleOrder[CHOOSE k \in m : \A j \in m : k <= j].label)

C10_Witness ==
    /\ gSubjects = List(<<Str(<<"C","r","i","m","e"," ","f","i","c","t","i","o","n">>), Str(<<"r","o","m","a","n","c","e"," ","s","u","b","p","l","o","t">>)>>)
    /\ gTitle = None /\ gDescription = None
    /\ {1, 8} \subseteq Matching
    /\ gOut = Str(<<"C","r","i","m","e">>)

\* the generic exclusion set as the claims give it
GenericExclusions ==
    { <<"f","i","c","t","i","o","n">>, <<"n","o","n","f","i","c","t","i","o","n">>, <<"l","i","t","e","r","a","t","u","r","e">>, <<"j","u","v","e","n","i","l","e"," ","f","i","c","t","i","o","n">>,
      <<"j","u","v","e","n","i","l","e"," ","n","o","n","f","i","c","t","i","o","n">> }

SubjectStrings == [k \in 1..Len(gSubjects.xs) |-> gSubjects.xs[k].s]

OnlyGenericSubjects ==
    \A k \in 1..Len(SubjectStrings) : ToLower(SubjectStrings[k]) \in GenericExclusions

\* C11: with only generic subjects and no title or description, classify
\* returns absent; classify(["juvenile fiction"], None, None) is absent.
C11_GenericSubjectsGiveAbsent ==
    (Classified /\ OnlyGenericSubjects /\ gTitle = None /\ gDescription = None) =>
        gOut = None

\* What the code returns there: "Literary Fiction" when some subject contains
\* "fiction" (so for "nonfiction" and "juvenile fiction" too), absent otherwise.
GenericSubjectsFictionOrAbsent ==
    (Classified /\ OnlyGenericSubjects /\ gTitle = None /\ gDescription = None) =>
        gOut = IF \E k \in 1..Len(SubjectStrings) :
                      Contains(ToLower(SubjectStrings[k]), <<"f","i","c","t","i","o","n">>)
               THEN Str(<<"L","i","t","e","r","a","r","y"," ","F","i","c","t","i","o","n">>)
               ELSE None

NoSubjectsNoDescription == gSubjects = List(<<>>) /\ gDescription = None

\* C12: the title is a classification signal when no subjects are given:
\* classify([], "a philosophical treatise", None) is "Philosophy".
C12_PhilosophicalTitle ==
    (Classified /\ NoSubjectsNoDescription
        /\ gTitle = Str(<<"a"," ","p","h","i","l","o","s","o","p","h","i","c","a","l"," ","t","r","e","a","t","i","s","e">>)) =>
        gOut = Str(<<"P","h","i","l","o","s","o","p","h","y">>)

\* What the code returns there: "Philosophy" for "A Treatise on Philosophy",
\* absent for "a philosophical treatise", of which no keyword is a substring.
TitleIsASignal ==
    (Classified /\ NoSubjectsNoDescription) =>
        /\ gTitle = Str(<<"A"," ","T","r","e","a","t","i","s","e"," ","o","n"," ","P","h","i","l","o","s","o","p","h","y">>) => gOut = Str(<<"P","h","i","l","o","s","o","p","h","y">>)
        /\ gTitle = Str(<<"a"," ","p","h","i","l","o","s","o","p","h","i","c","a","l"," ","t","r","e","a","t","i","s","e">>) => gOut = None
        /\ gTitle = None => gOut = None

\* the subject the last-resort scan returns when only "literature" is skipped
FirstNotLiterature ==
    IF \E k \in 1..Len(SubjectStrings) : ToLower(SubjectStrings[k]) # <<"l","i","t","e","r","a","t","u","r","e">>
    THEN Str(ToTitle(SubjectStrings[CHOOSE k \in 1..Len(SubjectStrings) :
                /\ ToLower(SubjectStrings[k]) # <<"l","i","t","e","r","a","t","u","r","e">>
                /\ \A j \in 1..(k - 1) : ToLower(SubjectStrings[j]) = <<"l","i","t","e","r","a","t","u","r","e">>]))
    ELSE None

\* C17: when the text contains "fiction" and no earlier rule matches, the
\* result is "Literary Fiction"; the last-resort subject scan is reached only
\* when no subject contains "fiction", and the only subjects it skips are
\* "literature".
C17_FictionShadowsGeneric ==
    Classified =>
        LET text == SearchText
        IN  Matching = {} =>
               /\ Contains(text, <<"f","i","c","t","i","o","n">>) => gOut = Str(<<"L","i","t","e","r","a","r","y"," ","F","i","c","t","i","o","n">>)
               /\ (gOut \notin {Str(<<"L","i","t","e","r","a","r","y"," ","F","i","c","t","i","o","n">>), Str(<<"N","o","n","-","F","i","c","t","i","o","n">>)}) =>
                     /\ \A k \in 1..Len(SubjectStrings) :
                           ~Contains(ToLower(SubjectStrings[k]), <<"f","i","c","t","i","o","n">>)
                     /\ gOut = FirstNotLiterature

C17_Witness ==
    /\ gSubjects = List(<<Str(<<"L","i","t","e","r","a","t","u","r","e">>), Str(<<"c","o","o","k","i","n","g">>)>>)
    /\ gTitle = None /\ gDescription = None
    /\ gOut = Str(<<"C","o","o","k","i","n","g">>)

-----------------------------------------------------------------------------
(* normalize_author_name on its own: the name is drawn in the initial state *)

MaxNameLen == 4

NameAlphabet == {"A", "b", ",", " "}

NameInputs ==
    {None, Str(<<"C","h","r","i","s","t","i","e",","," ","A","g","a","t","h","a">>), Str(<<"A","g","a","t","h","a"," ","C","h","r","i","s","t","i","e">>), Str(<<"O","n","e","N","a","m","e",",">>)}
    \cup UNION { {Str(s) : s \in [1..n -> NameAlphabet]} : n \in 0..MaxNameLen }

InitNormalize ==
    /\ store = [i \in ISBNs |-> NoRow]
    /\ Idle
    /\ NoClassify
    /\ aName \in NameInputs
    /\ aOut = NotCalled
    /\ NoHistory

Normalize ==
    /\ aOut = NotCalled
    /\ aName # NotCalled
    /\ aOut' = normalize_author_name(aName)
    /\ UNCHANGED <<store, pc, isbn, dbRead, olResp, gbResp, olMeta, gbMeta, calls,
                   result, cvResp, cvResult, gSubjects, gTitle, gDescription, gOut,
                   aName, absentBefore>>

SpecNormalize == InitNormalize /\ [][Normalize]_vars

Normalized == aOut # NotCalled

Blank(s) == \A i \in 1..Len(s) : s[i] = " "

\* t is s without its leading and trailing blanks
IsTrimOf(t, s) ==
    /\ t = <<>> \/ (t[1] # " " /\ t[Len(t)] # " ")
    /\ \E i \in 0..Len(s) : \E j \in i..Len(s) :
          /\ t = SubSeq(s, i + 1, j)
          /\ Blank(SubSeq(s, 1, i)) /\ Blank(SubSeq(s, j + 1, Len(s)))

\* some substring of s is its trim: the trim of s
Trimmed(s) ==
    CHOOSE t \in {SubSeq(s, i, j) : i \in 1..(Len(s) + 1), j \in 0..Len(s)} : IsTrimOf(t, s)

\* the parts of s before and after its first comma
BeforeFirstComma(s) ==
    SubSeq(s, 1, (CHOOSE i \in 1..Len(s) : s[i] = "," /\ \A j \in 1..(i - 1) : s[j] # ",") - 1)

AfterFirstComma(s) ==
    SubSeq(s, (CHOOSE i \in 1..Len(s) : s[i] = "," /\ \A j \in 1..(i - 1) : s[j] # ",") + 1,
           Len(s))

\* C13: normalize is total: a trimmed name with a comma is split at its first
\* comma into (last, first) and, both being non-empty after trimming, gives
\* "first last"; in every other case the trimmed input is returned, and an
\* empty or null name gives the empty string.
C13_NormalizeAuthorName ==
    Normalized =>
        LET name == IF aName = None THEN <<>> ELSE aName.s
            s == Trimmed(name)
        IN  /\ aOut.t = "str"
            /\ name = <<>> => aOut.s = <<>>
            /\ IF (\E i \in 1..Len(s) : s[i] = ",")
                   /\ Trimmed(BeforeFirstComma(s)) # <<>>
                   /\ Trimmed(AfterFirstComma(s)) # <<>>
               THEN aOut.s = Trimmed(AfterFirstComma(s)) \o <<" ">> \o Trimmed(BeforeFirstComma(s))
               ELSE aOut.s = s

C13_Witness == aName = Str(<<"C","h","r","i","s","t","i","e",","," ","A","g","a","t","h","a">>) /\ aOut = Str(<<"A","g","a","t","h","a"," ","C","h","r","i","s","t","i","e">>)

-----------------------------------------------------------------------------

\* C14: within one resolve that misses the cache, the external calls are one
\* Open Library call followed by at most one Google Books call and nothing
\* else: no provider is called twice, and the title/author cover search is
\* never made, also when the cover_url resolve returns is absent.
C14_ExternalCallsOfResolve ==
    (Resolving /\ dbRead = "miss") =>
        /\ calls \in {<<>>, <<"openlibrary">>, <<"openlibrary", "googlebooks">>}
        /\ (olResp # NoResp) <=> (Len(calls) >= 1)
        /\ (gbResp # NoResp) <=> (Len(calls) = 2)
        /\ Done => calls # <<>>
        /\ cvResp = NoResp /\ cvResult = NotCalled

C14_Witness ==
    /\ Done /\ dbRead = "miss"
    /\ calls = <<"openlibrary", "googlebooks">>
    /\ result.t = "tuple" /\ result.title = Str(<<"E","m","m","a">>) /\ result.cover_url = None
    /\ cvResult = NotCalled

-----------------------------------------------------------------------------

\* the cover object of the Open Library entry and the imageLinks object of the
\* Google Books volume that the resolve in progress received
CoverObject ==
    LET entry == olResp.json.d["ISBN:" \o isbn]
    IN  IF "cover" \in DOMAIN entry.d THEN entry.d["cover"] ELSE Dict(<<>>)

ImageLinksObject ==
    LET volume == gbResp.json.d["items"].xs[1].d["volumeInfo"]
    IN  IF "imageLinks" \in DOMAIN volume.d THEN volume.d["imageLinks"] ELSE Dict(<<>>)

\* the object holds a URL under the key
Present(object, key) ==
    key \in DOMAIN object.d /\ object.d[key].t = "str" /\ object.d[key].s # <<>>

\* the cover_url is the URL of the first key of the order that is present;
\* with no key present it is absent, and null when the object offers no key
Preferred(cover_url, object, order) ==
    IF \E n \in 1..Len(order) : Present(object, order[n])
    THEN LET n == CHOOSE n \in 1..Len(order) :
                      /\ Present(object, order[n])
                      /\ \A m \in 1..(n - 1) : ~Present(object, order[m])
         IN  cover_url = object.d[order[n]]
    ELSE /\ Empty(cover_url)
         /\ DOMAIN object.d = {} => cover_url = None

-----------------------------------------------------------------------------
(* The library: add_book and edit_book write the books table that
   fetch_book_info reads *)

\* fetch_book_info(i) as one call: the cache, then the external APIs
fetch_book_info(db, i, dbUp, ol, gb) ==
    LET cached == IF dbUp THEN get_book_from_db_by_isbn(db, i) ELSE None
    IN  IF Truthy(cached) THEN CacheResult(cached) ELSE MissOutcome(i, ol, gb)

\* (request.form.get(x) or "").strip()
Field(v) == Str(Strip(Or(v, Str(<<>>)).s))

\* request.form.get(x, "").strip()
FieldOr(v) == Str(Strip((IF v = Missing THEN Str(<<>>) ELSE v).s))

IsbnChars == [i \in ISBNs |-> IF i = "0000000000" THEN <<"0","0","0","0","0","0","0","0","0","0">> ELSE <<"9","7","8","0","0","0","7","1","1","9","3","1","8">>]

\* the key of the books table the stripped isbn field names
IsbnKey(chars) == CHOOSE i \in ISBNs : IsbnChars[i] = chars

\* the key add_book asks the providers about: that of its isbn field
FormKey(form) ==
    IF \E i \in ISBNs : IsbnChars[i] = Field(form.isbn).s
    THEN IsbnKey(Field(form.isbn).s) ELSE "0000000000"

\* the books table after add_book's POST
add_book(db, form, dbUp, ol, gb, cv) ==
    LET isbn_ == Field(form.isbn)
        title == Field(form.title)
        author == Field(form.author)
        cover_url == Field(form.cover_url)
        genre == Field(form.genre)
    IN  IF ~Truthy(isbn_) THEN db
        ELSE IF ~Truthy(title) \/ ~Truthy(author) THEN db
        ELSE LET key == IsbnKey(isbn_.s)
                 info == fetch_book_info(db, key, dbUp, ol, gb)
                 inferred == IF Truthy(genre) \/ IsRaise(info) \/ ~Truthy(info.genre)
                             THEN genre ELSE info.genre
                 alt_cover == fetch_cover_by_title_author(cv)
                 cover == IF ~Truthy(cover_url) /\ Truthy(alt_cover)
                          THEN alt_cover ELSE cover_url
             IN  IF db[key] # NoRow THEN db
                 ELSE [db EXCEPT ![key] = Row(title, author, cover, inferred)]

\* the books table after edit_book's POST for the row of key i
edit_book(db, i, form) ==
    IF db[i] = NoRow THEN db
    ELSE [db EXCEPT ![i] = Row(FieldOr(form.title), FieldOr(form.author),
                               db[i].d.cover_url, FieldOr(form.genre))]

\* the form of the add page; a field the request does not carry is None
AddForms ==
    [isbn : {Str(<<" ">>), Str(<<"0","0","0","0","0","0","0","0","0","0">>), Str(<<" ","9","7","8","0","0","0","7","1","1","9","3","1","8"," ">>)},
     title : {None, Str(<<"E","m","m","a"," ">>)},
     author : {Str(<<"J","a","n","e"," ","A","u","s","t","e","n">>)},
     cover_url : {None, Str(<<"c",".","j","p","g"," ">>)},
     genre : {Str(<<" ">>), Str(<<"R","o","m","a","n","c","e">>)}]

EditForms ==
    [title : {Str(<<" ">>), Str(<<"E","m","m","a"," ">>)},
     author : {Str(<<"J","a","n","e"," ","A","u","s","t","e","n">>)},
     genre : {Missing, Str(<<"R","o","m","a","n","c","e"," ">>)}]

LibOLResponses(i) ==
    { ConnectionError,
      Ok(Dict([k \in {"ISBN:" \o i} |-> Object([title |-> Str(<<"E","m","m","a">>)])])),
      Ok(Dict([k \in {"ISBN:" \o i} |->
                  Object([title |-> Str(<<"E","m","m","a">>),
                          subjects |-> List(<<Object([name |-> Str(CrimeSubjects[1])])>>)])])) }

LibGBResponses ==
    { HTTPError,
      Ok(Object([items |-> List(<<Object([volumeInfo |->
            Object([title |-> Str(<<"E","m","m","a">>),
                    categories |-> List(<<Str(CrimeSubjects[2])>>)])])>>)])) }

LibCoverResponses ==
    { Timeout,
      Ok(Object([items |-> List(<<Object([volumeInfo |->
            Object([imageLinks |-> Object([thumbnail |-> Str(<<"t",".","j","p","g">>)])])])>>)])) }

InitLibrary ==
    /\ store = [i \in ISBNs |-> NoRow]
    /\ Idle
    /\ NoClassify
    /\ NoNormalize
    /\ NoHistory

AddBook(form) ==
    /\ pc = "idle"
    /\ \E dbUp \in BOOLEAN, ol \in LibOLResponses(FormKey(form)),
          gb \in LibGBResponses, cv \in LibCoverResponses :
          store' = add_book(store, form, dbUp, ol, gb, cv)
    /\ UNCHANGED <<pc, isbn, dbRead, olResp, gbResp, olMeta, gbMeta, calls, result,
                   cvResp, cvResult, gSubjects, gTitle, gDescription, gOut,
                   aName, aOut, absentBefore>>

EditBook(i, form) ==
    /\ pc = "idle"
    /\ store' = edit_book(store, i, form)
    /\ UNCHANGED <<pc, isbn, dbRead, olResp, gbResp, olMeta, gbMeta, calls, result,
                   cvResp, cvResult, gSubjects, gTitle, gDescription, gOut,
                   aName, aOut, absentBefore>>

\* fetch_book_info has returned to api_preview_book; the history keeps the
\* ISBN when neither provider had it
Respond ==
    /\ pc = "done"
    /\ Reset
    /\ absentBefore' = IF olMeta = None /\ gbMeta = None
                       THEN absentBefore \cup {isbn} ELSE absentBefore
    /\ UNCHANGED <<store, gSubjects, gTitle, gDescription, gOut, aName, aOut>>

NextLibrary ==
    \/ \E i \in ISBNs : CheckCache(i)
    \/ FetchOpenLibraryFrom(LibOLResponses(isbn))
    \/ FetchGoogleBooksFrom(LibGBResponses)
    \/ Respond
    \/ \E form \in AddForms : AddBook(form)
    \/ \E i \in ISBNs, form \in EditForms : EditBook(i, form)

SpecLibrary == InitLibrary /\ [][NextLibrary]_vars

-----------------------------------------------------------------------------

\* a step of fetch_book_info: the position in it, its log of calls or its
\* result changes
ResolveStep == pc' # pc \/ calls' # calls \/ result' # result

\* a resolve of an ISBN that an earlier resolve found at neither provider, and
\* that the books table still does not hold, asks Open Library and then, on
\* its absent answer, Google Books again
QueriedAgain ==
    (Done /\ isbn \in absentBefore /\ store[isbn] = NoRow) =>
        /\ calls # <<>> /\ calls[1] = "openlibrary" /\ olResp # NoResp
        /\ olMeta = None => (calls = <<"openlibrary", "googlebooks">> /\ gbResp # NoResp)

\* C15: resolve changes no persistent state: no step of it writes the books
\* table, and it keeps no negative-result cache, so an ISBN that both providers
\* returned absent for is asked of the primary and then the secondary provider
\* again by a later resolve that still misses the store.
C15_ResolveKeepsNoState ==
    /\ []QueriedAgain
    /\ [][ResolveStep => store' = store]_vars

C15_Witness ==
    /\ Done /\ isbn \in absentBefore /\ store[isbn] = NoRow /\ dbRead = "miss"
    /\ olMeta = None /\ gbMeta = None
    /\ calls = <<"openlibrary", "googlebooks">>

\* C18: whatever add_book and edit_book requests have been served, the
\* cover_url and the genre that resolve returns on a cache hit are null or a
\* non-empty string, never the empty string.
C18_CacheHitNeverEmptyString ==
    (Done /\ dbRead = "hit") =>
        /\ result.cover_url # Str(<<>>)
        /\ result.genre # Str(<<>>)

====
